---- MODULE Spec2Model ----
(***************************************************************************)
(* The change-data-capture pipeline of thumanya_cms:                       *)
(*   Program save/delete (cms) -> post_save/post_delete signal handlers    *)
(*   (cms/signals.py) and the import task (external_sources/tasks.py)      *)
(*   -> topic programs.events -> indexing consumer                         *)
(*   (discovery/indexer/consumer.py) -> search index "programs",           *)
(*   plus the operator command create_opensearch_index, and the search     *)
(*   endpoint SearchView.get (discovery/views.py) that reads the index.    *)
(*   The account endpoints (users/views.py: register, login, logout,      *)
(*   profile) and their tokens are modelled beside it.                     *)
(*                                                                         *)
(* Encodings.  Python None as a program id is 0 (Django ids start at 1).   *)
(* Ids the search engine generates itself are negative.  A JSON message is *)
(* a record; a key the message does not carry is absent from its DOMAIN,   *)
(* and dict.get is the operator Get.  The field values of a program are    *)
(* abstracted to a version ("A", "B"); a payload is the record of the      *)
(* program's id and that version, and <<>> is the empty mapping {}.  A      *)
(* message whose JSON value is not an object (a list, a string, a number)  *)
(* is the record [json |-> "list"].                                        *)
(***************************************************************************)
EXTENDS Integers, Sequences, FiniteSets, TLC

\* ------------------------------------------------------------------ bounds
MaxLog == 2            \* messages on the topic in SpecLog
MaxAutoDocs == 1       \* documents stored under engine-generated ids
max_retries == 2       \* wait_for_opensearch's attempt budget (60 in the code)
MaxPrograms == 1       \* program rows ever created (ids 1..MaxPrograms)
MaxMutations == 2      \* committed saves and deletes in Spec
MaxHandlers == 2       \* signal handlers in flight at the same time
MaxPage == 2           \* page numbers of the search requests
MaxKeys == 2           \* token keys ever generated

\* --------------------------------------------------------------- constants
None == 0
NoOp == "None"
Absent == [absent |-> TRUE]
NotFound == [not_found |-> TRUE]
EmptyPayload == <<>>
NoMessage == <<>>
Versions == {"A", "B"}

\* the field values a row is inserted with (later saves write any version)
FirstVersion == "A"

\* the sleeps of run_consumer's loop, in tenths of a second: after an
\* iteration that ended without a message, and after an exception escaped it
idle_sleep == 5
backoff_sleep == 50

\* SearchView.get: the defaults of page and page_size and the cap of page_size
default_page == 1
default_page_size == 20
max_page_size == 100

\* before the first search request: no request, no call of client.search,
\* no response
NoRequest == [none |-> TRUE]
NoCall == [called |-> FALSE]
NoResponse == [status |-> 0]

NoRow == "no_row"
NoUser == [none |-> TRUE]
NoUserCall == [op |-> "none"]
NoRole == "None"
NoKey == 0
Emails == {"a@example.com", "b@example.com"}
Keys == 1..MaxKeys

ProgramIds == 1..MaxPrograms
\* the program ids on the messages of an arbitrary log, and no id at all
EventIds == {1, 2, None}
AutoIds == {0 - k : k \in 1..MaxAutoDocs}
DocIds == ProgramIds \cup (EventIds \ {None}) \cup AutoIds

VARIABLES
  programs,     \* relational store: program id -> version of its fields, or NoRow
  nextId,       \* next id the store assigns to a created program
  pending,      \* committed mutations whose signal handler has not run yet
  mutations,    \* number of mutations committed so far
  completed,    \* mutation numbers whose handler (and importer send) is done
  topic,        \* the log programs.events: a sequence of JSON messages
  origin,       \* for each message of topic, who appended it and for which mutation
  mapping,      \* the mapping the index "programs" was created with, "none" while it does not exist
  docs,         \* documents of the index: document id -> payload, or Absent
  pc,           \* where the consumer process is in run_consumer
  attempt,      \* wait_for_opensearch's loop variable
  exitCode,     \* exit status of the consumer process, -1 while it runs
  position,     \* the consumer's position on the topic (messages yielded so far)
  committed,    \* offset committed for group discovery-indexer
  current,      \* the message the consumer is processing, <<>> when none
  log,          \* the last line the consumer logged
  applied,      \* history: for each document id, the last index operation that
                \* took effect on it ("none", "upsert", "delete")
  handled,      \* history: the positions on the topic of the messages for
                \* which the loop body has run to its end
  request,      \* the GET parameters of the last search request
  search_body,  \* the body SearchView.get passed to client.search for it
  response,     \* the response SearchView.get returned for it
  users,        \* table of users: email -> row, or NoUser
  tokens,       \* table authtoken_token: rows [user, key]
  nextKey,      \* the next token key to be generated
  revoked,      \* history: the keys of the tokens a logout has deleted
  call          \* the last request to a users endpoint, with its response

vars == <<programs, nextId, pending, mutations, completed, topic, origin,
          mapping, docs, pc, attempt, exitCode, position,
          committed, current, log, applied, handled,
          request, search_body, response,
          users, tokens, nextKey, revoked, call>>

dbVars == <<programs, nextId, pending, mutations, completed>>
topicVars == <<topic, origin>>
indexVars == <<mapping, docs>>
consumerVars == <<pc, attempt, exitCode, position, committed, current, log>>
histVars == <<applied, handled>>
searchVars == <<request, search_body, response>>
userVars == <<users, tokens, nextKey, revoked, call>>

\* nobody has registered and no users endpoint has been called
NoUserActivity ==
  /\ users = [e \in Emails |-> NoUser]
  /\ tokens = {}
  /\ nextKey = 1
  /\ revoked = {}
  /\ call = NoUserCall

\* ------------------------------------------------------------ the index
\* client.indices.exists(index)
indexExists == mapping # "none"

NoDocs == [i \in DocIds |-> Absent]

\* the deserialized value is a dict, so that event.get does not raise
IsDict(event) == "json" \notin DOMAIN event

\* dict.get(key, default)
Get(event, key, default) == IF key \in DOMAIN event THEN event[key] ELSE default

\* client.get(index, id): the stored document, or not-found
Lookup(d, id) == IF id \in DocIds /\ d[id] # Absent THEN d[id] ELSE NotFound

DocSet(d) == {i \in DocIds : d[i] # Absent}

FreeAutoIds(d) == {i \in AutoIds : d[i] = Absent}

\* the id the engine generates for a document indexed without one
NewAutoId(d) == CHOOSE i \in FreeAutoIds(d) : \A j \in FreeAutoIds(d) : i >= j

\* client.index(index, id, body, refresh=True), when it does not raise:
\* the document is stored under id, or under a generated id when id is None,
\* and is visible to the next read.
TargetId(d, id) == IF id = None THEN NewAutoId(d) ELSE id

\* mutant: without refresh=True the write is not visible to the next read
IndexDoc_Unrefreshed(d, id, body) == d

\* mutant: a document whose id is taken is added under a generated id
\* instead of replacing the one under its id
IndexDoc_Appends(d, id, body) ==
  IF id # None /\ d[id] # Absent /\ FreeAutoIds(d) # {}
  THEN [d EXCEPT ![NewAutoId(d)] = body]
  ELSE [d EXCEPT ![TargetId(d, id)] = body]

IndexDoc(d, id, body) == [d EXCEPT ![TargetId(d, id)] = body]

\* mutant: without refresh=True the delete is not visible to the next read
DeleteDoc_Unrefreshed(d, id) == d

\* mutant: the delete goes to another document
DeleteDoc_Other(d, id) == [d EXCEPT ![CHOOSE j \in DocIds : j # id] = Absent]

\* client.delete(index, id, refresh=True), when it does not raise
DeleteDoc(d, id) == [d EXCEPT ![id] = Absent]

\* mutant: every tag that is not delete is taken for an upsert
IsUpsertOp_Else(op) == op # "delete"

\* the test of run_consumer's first branch
IsUpsertOp(op) == op \in {"upsert", "create", "update"}

\* mutant: the tag is misspelt
IsDeleteOp_Typo(op) == op = "deleted"

\* the test of run_consumer's second branch
IsDeleteOp(op) == op = "delete"

\* ------------------------------------------------- the indexing consumer
\* handle_upsert: one client.index call; whatever it raises is logged and
\* swallowed.  Indexing into a missing index makes the engine create it with
\* a dynamic mapping.
handle_upsert(doc_id, payload) ==
  \/ /\ doc_id # None \/ FreeAutoIds(docs) # {}
     /\ docs' = IndexDoc(docs, doc_id, payload)
     /\ mapping' = IF indexExists THEN mapping ELSE "dynamic"
     /\ log' = "Indexed program"
     /\ applied' = [applied EXCEPT ![TargetId(docs, doc_id)] = "upsert"]
  \/ /\ UNCHANGED <<indexVars, applied>>
     /\ log' = "Error indexing program"

\* handle_delete: one client.delete call.  It raises when the document or
\* the index is absent and when the id is None, and it may raise a transport
\* error; all of these are logged as a warning, with the exception in the
\* line, and swallowed.
handle_delete(doc_id) ==
  \/ /\ Lookup(docs, doc_id) # NotFound
     /\ docs' = DeleteDoc(docs, doc_id)
     /\ UNCHANGED mapping
     /\ log' = "Deleted program"
     /\ applied' = [applied EXCEPT ![doc_id] = "delete"]
  \/ /\ Lookup(docs, doc_id) = NotFound
     /\ UNCHANGED <<indexVars, applied>>
     /\ log' = "Delete failed: not found"
  \/ /\ UNCHANGED <<indexVars, applied>>
     /\ log' = "Delete failed: transport error"

\* "OpenSearch is ready! Cluster status: {health['status']}"
ReadyLine(status) ==
  IF status = "green" THEN "OpenSearch is ready! Cluster status: green"
  ELSE IF status = "yellow" THEN "OpenSearch is ready! Cluster status: yellow"
  ELSE "OpenSearch is ready! Cluster status: red"

\* mutant: any answer of the cluster counts as ready, only an exception
\* does not
wait_for_opensearch_AnyStatus ==
  /\ pc = "health"
  /\ \E status \in {"green", "yellow", "red", "raise"} :
       IF status \in {"green", "yellow", "red"}
       THEN /\ pc' = "schema"
            /\ log' = ReadyLine(status)
            /\ UNCHANGED <<attempt, exitCode>>
       ELSE IF attempt < max_retries - 1
            THEN /\ attempt' = attempt + 1
                 /\ log' = "Retrying"
                 /\ UNCHANGED <<pc, exitCode>>
            ELSE /\ pc' = "exited"
                 /\ exitCode' = 1
                 /\ log' = "Failed to connect to OpenSearch: not ready"
                 /\ UNCHANGED attempt
  /\ UNCHANGED <<position, committed, current>>
  /\ UNCHANGED <<dbVars, topicVars, indexVars, histVars>>
  /\ UNCHANGED <<searchVars, userVars>>

\* mutant: the loop has no attempt budget (while True)
wait_for_opensearch_Forever ==
  /\ pc = "health"
  /\ \E status \in {"green", "yellow", "red", "raise"} :
       IF status \in {"green", "yellow"}
       THEN /\ pc' = "schema"
            /\ log' = ReadyLine(status)
            /\ UNCHANGED <<attempt, exitCode>>
       ELSE /\ attempt' = (attempt + 1) % (max_retries + 2)
            /\ log' = "Retrying"
            /\ UNCHANGED <<pc, exitCode>>
  /\ UNCHANGED <<position, committed, current>>
  /\ UNCHANGED <<dbVars, topicVars, indexVars, histVars>>
  /\ UNCHANGED <<searchVars, userVars>>

\* wait_for_opensearch: one iteration of the polling loop.  The poll reports
\* a cluster status or raises; exhausting the budget raises, and run_consumer
\* turns that into sys.exit(1).
wait_for_opensearch ==
  /\ pc = "health"
  /\ \E status \in {"green", "yellow", "red", "raise"} :
       IF status \in {"green", "yellow"}
       THEN /\ pc' = "schema"
            /\ log' = ReadyLine(status)
            /\ UNCHANGED <<attempt, exitCode>>
       ELSE IF attempt < max_retries - 1
            THEN /\ attempt' = attempt + 1
                 /\ log' = "Retrying"
                 /\ UNCHANGED <<pc, exitCode>>
            ELSE /\ pc' = "exited"
                 /\ exitCode' = 1
                 /\ log' = "Failed to connect to OpenSearch: not ready"
                 /\ UNCHANGED attempt
  /\ UNCHANGED <<position, committed, current>>
  /\ UNCHANGED <<dbVars, topicVars, indexVars, histVars>>
  /\ UNCHANGED <<searchVars, userVars>>

\* mutant: the index is created without the existence check, which replaces
\* an existing one
create_index_if_not_exists_Recreates ==
  /\ pc = "schema"
  /\ \/ /\ mapping' = "inline"
        /\ docs' = NoDocs
        /\ log' = "Created index"
        /\ pc' = "warmup"
        /\ UNCHANGED exitCode
     \/ /\ UNCHANGED indexVars
        /\ log' = "Failed to connect to OpenSearch: index error"
        /\ pc' = "exited"
        /\ exitCode' = 1
  /\ UNCHANGED <<attempt, position, committed, current>>
  /\ UNCHANGED <<dbVars, topicVars, histVars>>
  /\ UNCHANGED <<searchVars, userVars>>

\* mutant: the except clause logs the error and does not re-raise it, so
\* run_consumer goes on to subscribe
create_index_if_not_exists_Swallows ==
  /\ pc = "schema"
  /\ \/ /\ ~indexExists
        /\ mapping' = "inline"
        /\ docs' = NoDocs
        /\ log' = "Created index"
     \/ /\ indexExists
        /\ UNCHANGED indexVars
        /\ log' = "Index already exists"
     \/ /\ UNCHANGED indexVars
        /\ log' = "Error creating index"
  /\ pc' = "warmup"
  /\ UNCHANGED <<attempt, exitCode, position, committed, current>>
  /\ UNCHANGED <<dbVars, topicVars, histVars>>
  /\ UNCHANGED <<searchVars, userVars>>

\* create_index_if_not_exists, called from run_consumer: the existence check
\* or the creation may raise, which is logged ("Error creating index") and
\* re-raised; run_consumer logs the exception and ends the process with
\* sys.exit(1).
create_index_if_not_exists ==
  /\ pc = "schema"
  /\ \/ /\ ~indexExists
        /\ mapping' = "inline"
        /\ docs' = NoDocs
        /\ log' = "Created index"
        /\ pc' = "warmup"
        /\ UNCHANGED exitCode
     \/ /\ indexExists
        /\ UNCHANGED indexVars
        /\ log' = "Index already exists"
        /\ pc' = "warmup"
        /\ UNCHANGED exitCode
     \/ /\ UNCHANGED indexVars
        /\ log' = "Failed to connect to OpenSearch: index error"
        /\ pc' = "exited"
        /\ exitCode' = 1
  /\ UNCHANGED <<attempt, position, committed, current>>
  /\ UNCHANGED <<dbVars, topicVars, histVars>>
  /\ UNCHANGED <<searchVars, userVars>>

\* mutant: the KafkaConsumer is made at the top of run_consumer, before the
\* engine has been polled and the index looked at
Subscribe_First ==
  /\ pc \in {"health", "warmup"}
  /\ \/ /\ pc' = "loop"
        /\ position' = committed
        /\ log' = "Kafka consumer created successfully"
        /\ UNCHANGED exitCode
     \/ /\ pc' = "exited"
        /\ exitCode' = 1
        /\ log' = "Traceback"
        /\ UNCHANGED position
  /\ UNCHANGED <<attempt, committed, current>>
  /\ UNCHANGED <<dbVars, topicVars, indexVars, histVars>>
  /\ UNCHANGED <<searchVars, userVars>>

\* mutant: auto_offset_reset="latest": a group without a committed offset
\* starts at the end of the topic
Subscribe_Latest ==
  /\ pc = "warmup"
  /\ \/ /\ pc' = "loop"
        /\ position' = IF committed = 0 THEN Len(topic) ELSE committed
        /\ log' = "Kafka consumer created successfully"
        /\ UNCHANGED exitCode
     \/ /\ pc' = "exited"
        /\ exitCode' = 1
        /\ log' = "Traceback"
        /\ UNCHANGED position
  /\ UNCHANGED <<attempt, committed, current>>
  /\ UNCHANGED <<dbVars, topicVars, indexVars, histVars>>
  /\ UNCHANGED <<searchVars, userVars>>

\* run_consumer after the startup block: the warm-up sleep and the
\* KafkaConsumer constructor.  The group resumes at its committed offset
\* (earliest when it has none).  The constructor is outside every try, so an
\* exception it raises ends the process.
Subscribe ==
  /\ pc = "warmup"
  /\ \/ /\ pc' = "loop"
        /\ position' = committed
        /\ log' = "Kafka consumer created successfully"
        /\ UNCHANGED exitCode
     \/ /\ pc' = "exited"
        /\ exitCode' = 1
        /\ log' = "Traceback"
        /\ UNCHANGED position
  /\ UNCHANGED <<attempt, committed, current>>
  /\ UNCHANGED <<dbVars, topicVars, indexVars, histVars>>
  /\ UNCHANGED <<searchVars, userVars>>

\* for message in consumer: the iterator yields the next message and advances
\* the in-memory position
Fetch ==
  /\ pc = "loop"
  /\ position < Len(topic)
  /\ current' = topic[position + 1]
  /\ position' = position + 1
  /\ pc' = "dispatch"
  /\ log' = "Received message"
  /\ UNCHANGED <<attempt, exitCode, committed>>
  /\ UNCHANGED <<dbVars, topicVars, indexVars, histVars>>
  /\ UNCHANGED <<searchVars, userVars>>

\* mutant: offsets are committed in the background, also while the loop body
\* is running
AutoCommit_Background ==
  /\ pc \in {"loop", "dispatch"}
  /\ committed # position
  /\ committed' = position
  /\ UNCHANGED <<pc, attempt, exitCode, position, current, log>>
  /\ UNCHANGED <<dbVars, topicVars, indexVars, histVars>>
  /\ UNCHANGED <<searchVars, userVars>>

\* enable_auto_commit: a poll inside the iterator (also one that times out
\* with no message, before the idle sleep) commits the position, which covers
\* the messages whose loop body has finished
AutoCommit ==
  /\ pc = "loop"
  /\ committed # position
  /\ committed' = position
  /\ UNCHANGED <<pc, attempt, exitCode, position, current, log>>
  /\ UNCHANGED <<dbVars, topicVars, indexVars, histVars>>
  /\ UNCHANGED <<searchVars, userVars>>

\* mutant: the for loop is not wrapped in a try, so the exception leaves
\* run_consumer
ConsumerError_Exits ==
  /\ pc = "loop"
  /\ pc' = "exited"
  /\ exitCode' = 1
  /\ log' = "Traceback"
  /\ UNCHANGED <<attempt, position, committed, current>>
  /\ UNCHANGED <<dbVars, topicVars, indexVars, histVars>>
  /\ UNCHANGED <<searchVars, userVars>>

\* an exception escapes the iteration: logged, then the backoff sleep
ConsumerError ==
  /\ pc = "loop"
  /\ pc' = "backoff"
  /\ log' = "Consumer error"
  /\ UNCHANGED <<attempt, exitCode, position, committed, current>>
  /\ UNCHANGED <<dbVars, topicVars, indexVars, histVars>>
  /\ UNCHANGED <<searchVars, userVars>>

\* the backoff sleep is over: while True enters the for loop again
Backoff ==
  /\ pc = "backoff"
  /\ pc' = "loop"
  /\ UNCHANGED <<attempt, exitCode, position, committed, current, log>>
  /\ UNCHANGED <<dbVars, topicVars, indexVars, histVars>>
  /\ UNCHANGED <<searchVars, userVars>>

\* the lines logged when client.index raised, and when client.delete raised
\* anything but "not found"
ErrorLines == {"Error indexing program", "Delete failed: transport error"}

\* the lines logged for a message whose processing failed
FailureLines ==
  {"Error indexing program", "Delete failed: not found",
   "Delete failed: transport error", "Error processing message"}

\* mutant: a message whose processing failed is processed again
Dispatch_Retries ==
  /\ pc = "dispatch"
  /\ LET event == current
         op == Get(event, "op", NoOp)
         program_id == Get(event, "program_id", None)
         payload == Get(event, "payload", EmptyPayload)
     IN  IF ~IsDict(event)
         THEN /\ log' = "Error processing message"
              /\ UNCHANGED <<indexVars, applied>>
         ELSE IF IsUpsertOp(op) THEN handle_upsert(program_id, payload)
         ELSE IF IsDeleteOp(op) THEN handle_delete(program_id)
         ELSE /\ log' = "Unknown operation"
              /\ UNCHANGED <<indexVars, applied>>
  /\ pc' = IF log' \in FailureLines THEN "dispatch" ELSE "loop"
  /\ handled' = handled \cup {position}
  /\ UNCHANGED <<attempt, exitCode, position, committed, current>>
  /\ UNCHANGED <<dbVars, topicVars>>
  /\ UNCHANGED <<searchVars, userVars>>

\* the body of the for loop: read op, program_id and payload off the event
\* and dispatch on op.  event.get raises when the event is not a dict; the
\* try around the body catches and logs that, like anything else the body
\* raises.
Dispatch ==
  /\ pc = "dispatch"
  /\ LET event == current
         op == Get(event, "op", NoOp)
         program_id == Get(event, "program_id", None)
         payload == Get(event, "payload", EmptyPayload)
     IN  IF ~IsDict(event)
         THEN /\ log' = "Error processing message"
              /\ UNCHANGED <<indexVars, applied>>
         ELSE IF IsUpsertOp(op) THEN handle_upsert(program_id, payload)
         ELSE IF IsDeleteOp(op) THEN handle_delete(program_id)
         ELSE /\ log' = "Unknown operation"
              /\ UNCHANGED <<indexVars, applied>>
  /\ pc' = "loop"
  /\ handled' = handled \cup {position}
  /\ UNCHANGED <<attempt, exitCode, position, committed, current>>
  /\ UNCHANGED <<dbVars, topicVars>>
  /\ UNCHANGED <<searchVars, userVars>>

\* the consumer process is killed, or has exited, and is started again:
\* run_consumer begins anew, and only the group's committed offset survives
Restart ==
  /\ pc # "health"
  /\ pc' = "health"
  /\ attempt' = 0
  /\ exitCode' = 0 - 1
  /\ position' = 0
  /\ current' = NoMessage
  /\ log' = "Starting CMS Discovery Indexer"
  /\ UNCHANGED committed
  /\ UNCHANGED <<dbVars, topicVars, indexVars, histVars>>
  /\ UNCHANGED <<searchVars, userVars>>

\* ------------------------------------- the create_opensearch_index command
\* Command.handle: an existing index is deleted, then the index is created
\* from the mapping file.  When the file is missing, or a call raises before
\* the delete, the command ends with nothing changed (a stuttering step);
\* when the create raises after the delete, the index stays deleted.
Command_handle ==
  /\ \/ /\ mapping' = "file"
        /\ docs' = NoDocs
     \/ /\ indexExists
        /\ mapping' = "none"
        /\ docs' = NoDocs
  /\ UNCHANGED <<dbVars, topicVars, consumerVars, histVars>>
  /\ UNCHANGED <<searchVars, userVars>>

\* ------------------------------------------------ the consumer on any log
Snapshot(id, version) == [id |-> id, fields |-> version]

\* upserts of every id in both versions, and the two synonymous spellings
UpsertEvents ==
  {[op |-> "upsert", program_id |-> i, payload |-> Snapshot(i, v)] :
     i \in EventIds, v \in Versions}
  \cup { [op |-> "create", program_id |-> 1, payload |-> Snapshot(1, "A")],
         [op |-> "update", program_id |-> 1, payload |-> Snapshot(1, "B")] }

DeleteEvents == {[op |-> "delete", program_id |-> i, payload |-> EmptyPayload] : i \in EventIds}

\* an unknown tag, a message of the importer's shape (no op, no program_id,
\* no payload), an upsert that carries no payload, and a message that is
\* not a JSON object
OtherEvents ==
  { [op |-> "archive", program_id |-> 1, payload |-> Snapshot(1, "A")],
    [action |-> "upsert", data |-> Snapshot(1, "A")],
    [op |-> "upsert", program_id |-> 1],
    [json |-> "list"] }

Events == UpsertEvents \cup DeleteEvents \cup OtherEvents

RECURSIVE Logs(_)
Logs(n) == IF n = 0 THEN {<<>>}
           ELSE LET shorter == Logs(n - 1)
                IN  shorter \cup {Append(l, e) : l \in {s \in shorter : Len(s) = n - 1}, e \in Events}

InitCommon ==
  /\ programs = [i \in ProgramIds |-> NoRow]
  /\ nextId = 1
  /\ pending = {}
  /\ mutations = 0
  /\ completed = {}
  /\ mapping = "none"
  /\ docs = NoDocs
  /\ pc = "health"
  /\ attempt = 0
  /\ exitCode = 0 - 1
  /\ position = 0
  /\ committed = 0
  /\ current = NoMessage
  /\ log = "Starting CMS Discovery Indexer"
  /\ applied = [i \in DocIds |-> "none"]
  /\ handled = {}
  /\ request = NoRequest
  /\ search_body = NoCall
  /\ response = NoResponse
  /\ NoUserActivity

InitLog ==
  /\ InitCommon
  /\ topic \in Logs(MaxLog)
  /\ origin = [k \in 1..Len(topic) |-> [src |-> "external", mut |-> 0]]

ConsumerNext ==
  \/ wait_for_opensearch
  \/ create_index_if_not_exists
  \/ Subscribe
  \/ Fetch
  \/ AutoCommit
  \/ ConsumerError
  \/ Backoff
  \/ Dispatch
  \/ Restart

\* The consumer process, with its crashes, restarts and broker errors, on
\* every log of at most MaxLog messages.
NextLog == ConsumerNext

SpecLog == InitLog /\ [][NextLog]_vars

\* ----------------------------------------------- the relational store
Live == {i \in ProgramIds : programs[i] # NoRow}

\* a mutation is committed and its signal is about to be dispatched; lost
\* records whether a send for it has failed
Commit(signal, id, version, created, by) ==
  /\ mutations < MaxMutations
  /\ Cardinality(pending) < MaxHandlers
  /\ mutations' = mutations + 1
  /\ pending' = pending \cup
       {[signal |-> signal, id |-> id, fields |-> version, created |-> created,
         by |-> by, mut |-> mutations + 1, lost |-> FALSE]}

\* ProgramViewSet.create: Program.save() inserts a row under a fresh id
CreateProgram ==
  /\ nextId <= MaxPrograms
  /\ programs' = [programs EXCEPT ![nextId] = FirstVersion]
  /\ Commit("post_save", nextId, FirstVersion, TRUE, "api")
  /\ nextId' = nextId + 1
  /\ UNCHANGED <<completed, topicVars, indexVars, consumerVars, histVars>>
  /\ UNCHANGED <<searchVars, userVars>>

\* ProgramViewSet.update / partial_update: Program.save() on an existing row
UpdateProgram ==
  /\ \E i \in Live, v \in Versions :
       /\ programs' = [programs EXCEPT ![i] = v]
       /\ Commit("post_save", i, v, FALSE, "api")
  /\ UNCHANGED <<nextId, completed, topicVars, indexVars, consumerVars, histVars>>
  /\ UNCHANGED <<searchVars, userVars>>

\* ProgramViewSet.destroy: Program.delete()
DeleteProgram ==
  /\ \E i \in Live :
       /\ programs' = [programs EXCEPT ![i] = NoRow]
       /\ Commit("post_delete", i, programs[i], FALSE, "api")
  /\ UNCHANGED <<nextId, completed, topicVars, indexVars, consumerVars, histVars>>
  /\ UNCHANGED <<searchVars, userVars>>

\* ------------------------------------------------- the change publisher
\* producer.send(topic, value) followed by flush, when the message reaches
\* the log
Publish(message, src, mut) ==
  /\ topic' = Append(topic, message)
  /\ origin' = Append(origin, [src |-> src, mut |-> mut])

\* the record kept of a mutation whose handlers are done: lost tells whether
\* a send for it failed, error whether its caller got an exception
Done(h, lost) ==
  [mut |-> h.mut, signal |-> h.signal, by |-> h.by, lost |-> lost, error |-> FALSE]

\* what is left to do for a mutation once its signal handler has returned:
\* nothing for an API request, the importer's own send for the import task
AfterSignal(h, lost) ==
  IF h.by = "import"
  THEN /\ pending' = (pending \ {h}) \cup {[h EXCEPT !.signal = "import_send", !.lost = lost]}
       /\ UNCHANGED completed
  ELSE /\ pending' = pending \ {h}
       /\ completed' = completed \cup {Done(h, lost)}

\* the message send_program_to_kafka builds
program_data(h) ==
  [op |-> IF h.created THEN "upsert" ELSE "update",
   program_id |-> h.id,
   payload |-> Snapshot(h.id, h.fields)]

\* the message send_program_deletion_to_kafka builds
deletion_data(h) == [op |-> "delete", program_id |-> h.id, payload |-> EmptyPayload]

\* the message import_external_programs builds
import_data(h) == [action |-> "upsert", data |-> Snapshot(h.id, h.fields)]

\* mutant: the handler has no try, so an exception of send or flush reaches
\* the caller of save()
send_program_to_kafka_Raises ==
  /\ \E h \in pending :
       /\ h.signal = "post_save"
       /\ \/ /\ Publish(program_data(h), "signal", h.mut)
             /\ AfterSignal(h, FALSE)
          \/ /\ UNCHANGED topicVars
             /\ pending' = pending \ {h}
             /\ completed' = completed \cup {[Done(h, TRUE) EXCEPT !.error = TRUE]}
  /\ UNCHANGED <<programs, nextId, mutations, indexVars, consumerVars, histVars>>
  /\ UNCHANGED <<searchVars, userVars>>

\* send_program_to_kafka (post_save): no producer, or an exception in send
\* or flush, is logged and the handler returns without an event
send_program_to_kafka ==
  /\ \E h \in pending :
       /\ h.signal = "post_save"
       /\ \/ /\ Publish(program_data(h), "signal", h.mut)
             /\ AfterSignal(h, FALSE)
          \/ /\ UNCHANGED topicVars
             /\ AfterSignal(h, TRUE)
  /\ UNCHANGED <<programs, nextId, mutations, indexVars, consumerVars, histVars>>
  /\ UNCHANGED <<searchVars, userVars>>

\* mutant: the post_delete handler also removes the document itself
send_program_deletion_to_kafka_Deindexes ==
  /\ \E h \in pending :
       /\ h.signal = "post_delete"
       /\ docs' = DeleteDoc(docs, h.id)
       /\ \/ /\ Publish(deletion_data(h), "signal", h.mut)
             /\ AfterSignal(h, FALSE)
          \/ /\ UNCHANGED topicVars
             /\ AfterSignal(h, TRUE)
  /\ UNCHANGED <<programs, nextId, mutations, mapping, consumerVars, histVars>>
  /\ UNCHANGED <<searchVars, userVars>>

\* send_program_deletion_to_kafka (post_delete)
send_program_deletion_to_kafka ==
  /\ \E h \in pending :
       /\ h.signal = "post_delete"
       /\ \/ /\ Publish(deletion_data(h), "signal", h.mut)
             /\ AfterSignal(h, FALSE)
          \/ /\ UNCHANGED topicVars
             /\ AfterSignal(h, TRUE)
  /\ UNCHANGED <<programs, nextId, mutations, indexVars, consumerVars, histVars>>
  /\ UNCHANGED <<searchVars, userVars>>

\* ------------------------------------------------------ the import task
\* import_external_programs, first half of one loop iteration:
\* Program.objects.update_or_create(media_url, defaults) inserts a row or
\* overwrites the row with that media_url; either way it saves, so post_save
\* is dispatched.  When it raises, nothing is committed and the task ends (a
\* stuttering step).
import_update_or_create ==
  /\ \A h \in pending : h.by # "import"
  /\ \E v \in Versions :
       \/ /\ nextId <= MaxPrograms
          /\ v = FirstVersion
          /\ programs' = [programs EXCEPT ![nextId] = v]
          /\ Commit("post_save", nextId, v, TRUE, "import")
          /\ nextId' = nextId + 1
       \/ /\ \E i \in Live :
               /\ programs' = [programs EXCEPT ![i] = v]
               /\ Commit("post_save", i, v, FALSE, "import")
          /\ UNCHANGED nextId
  /\ UNCHANGED <<completed, topicVars, indexVars, consumerVars, histVars>>
  /\ UNCHANGED <<searchVars, userVars>>

\* import_external_programs, second half of the iteration: the task's own
\* producer.send of {"action": "upsert", "data": {...}}; when it raises the
\* task ends without the message
import_send ==
  /\ \E h \in pending :
       /\ h.signal = "import_send"
       /\ \/ /\ Publish(import_data(h), "import", h.mut)
             /\ completed' = completed \cup {Done([h EXCEPT !.signal = "post_save"], h.lost)}
          \/ /\ UNCHANGED topicVars
             /\ completed' = completed \cup {Done([h EXCEPT !.signal = "post_save"], TRUE)}
       /\ pending' = pending \ {h}
  /\ UNCHANGED <<programs, nextId, mutations, indexVars, consumerVars, histVars>>
  /\ UNCHANGED <<searchVars, userVars>>

\* The consumer on the logs of a few events of two programs: a fresh group
\* reads each log from its earliest offset into an index that does not
\* exist yet.
ReplayEvents ==
  { [op |-> "upsert", program_id |-> 1, payload |-> Snapshot(1, "A")],
    [op |-> "update", program_id |-> 1, payload |-> Snapshot(1, "B")],
    [op |-> "delete", program_id |-> 1, payload |-> EmptyPayload],
    [op |-> "upsert", program_id |-> 2, payload |-> Snapshot(2, "B")],
    [action |-> "upsert", data |-> Snapshot(1, "A")] }

InitReplay ==
  /\ InitCommon
  /\ topic \in {lg \in Logs(MaxLog) : \A k \in 1..Len(lg) : lg[k] \in ReplayEvents}
  /\ origin = [k \in 1..Len(topic) |-> [src |-> "external", mut |-> 0]]

SpecReplay == InitReplay /\ [][NextLog]_vars

\* The schema manager's two entry points next to a consumer that indexes,
\* crashes and restarts, on a few fixed logs.
SchemaLogs ==
  { <<>>,
    <<[op |-> "upsert", program_id |-> 1, payload |-> Snapshot(1, "A")]>>,
    <<[op |-> "upsert", program_id |-> 1, payload |-> Snapshot(1, "A")],
      [op |-> "update", program_id |-> 2, payload |-> Snapshot(2, "B")]>> }

InitSchema ==
  /\ InitCommon
  /\ topic \in SchemaLogs
  /\ origin = [k \in 1..Len(topic) |-> [src |-> "external", mut |-> 0]]

NextSchema ==
  \/ ConsumerNext
  \/ Command_handle

SpecSchema == InitSchema /\ [][NextSchema]_vars

\* The same, with the consumer's startup loop scheduled: a process that is
\* polling the engine's health goes on to its next poll (each poll returns or
\* times out, and each delay is a bounded sleep).
SpecSchemaFair == SpecSchema /\ WF_vars(wait_for_opensearch)

\* The pipeline: request handlers, the import task, the signal handlers, the
\* operator command and a consumer process.  Crashes, broker errors and
\* redelivery are explored in SpecLog.
Init ==
  /\ InitCommon
  /\ topic = <<>>
  /\ origin = <<>>

Next ==
  \/ CreateProgram
  \/ UpdateProgram
  \/ DeleteProgram
  \/ send_program_to_kafka
  \/ send_program_deletion_to_kafka
  \/ import_update_or_create
  \/ import_send
  \/ wait_for_opensearch
  \/ create_index_if_not_exists
  \/ Subscribe
  \/ Fetch
  \/ Dispatch
  \/ Command_handle

Spec == Init /\ [][Next]_vars

\* ============================================ the search endpoint
\* SearchView.get (discovery/views.py).  A GET parameter is absent, a text,
\* or a text of decimal digits, which is written as the integer it spells;
\* the tags parameter is written as its sequence of characters.
NoParam == [given |-> FALSE]

Text(s) == [str |-> s]

Num(n) == [int |-> n]

Chars(cs) == [chars |-> cs]

\* the truth value Python gives request.GET.get(name): None and "" are false
Truthy(p) == p # NoParam /\ p # Text("") /\ p # Chars(<<>>)

\* int(request.GET.get(name, default)): ValueError unless the text is a number
ParseInt(p, default) ==
  IF p = NoParam THEN [ok |-> TRUE, value |-> default]
  ELSE IF "int" \in DOMAIN p THEN [ok |-> TRUE, value |-> p.int]
  ELSE [ok |-> FALSE]

Min(a, b) == IF a <= b THEN a ELSE b

\* str.split(','): the segments between the commas
RECURSIVE Split(_)
Split(cs) ==
  IF cs = <<>> THEN << <<>> >>
  ELSE LET rest == Split(Tail(cs))
       IN  IF Head(cs) = "," THEN << <<>> >> \o rest
           ELSE << <<Head(cs)>> \o Head(rest) >> \o Tail(rest)

\* str.strip(): without the blanks at both ends
RECURSIVE LStrip(_)
LStrip(cs) == IF cs # <<>> /\ Head(cs) = " " THEN LStrip(Tail(cs)) ELSE cs

RECURSIVE RStrip(_)
RStrip(cs) ==
  IF cs # <<>> /\ cs[Len(cs)] = " " THEN RStrip(SubSeq(cs, 1, Len(cs) - 1)) ELSE cs

Strip(cs) == LStrip(RStrip(cs))

\* [tag.strip() for tag in tags.split(',')]
tag_list(tags) == [i \in 1..Len(Split(tags.chars)) |-> Strip(Split(tags.chars)[i])]

\* the clauses of the filter list
Term(field, value) == [kind |-> "term", field |-> field, value |-> value]

Range(field, lo, hi) ==
  [kind |-> "range", field |-> field,
   bounds |-> [k \in {b \in {"gte", "lte"} :
                         (b = "gte" /\ Truthy(lo)) \/ (b = "lte" /\ Truthy(hi))}
                 |-> IF k = "gte" THEN lo.str ELSE hi.str]]

Terms(field, values) == [kind |-> "terms", field |-> field, values |-> values]

\* mutant: the two ends of the duration range are appended as two clauses
filter_queries_SplitRange(req) ==
  (IF Truthy(req.category) THEN <<Term("category", req.category.str)>> ELSE <<>>)
  \o (IF Truthy(req.language) THEN <<Term("language", req.language.str)>> ELSE <<>>)
  \o (IF Truthy(req.media_type) THEN <<Term("media_type", req.media_type.str)>> ELSE <<>>)
  \o (IF Truthy(req.duration_min)
      THEN <<Range("duration", req.duration_min, NoParam)>> ELSE <<>>)
  \o (IF Truthy(req.duration_max)
      THEN <<Range("duration", NoParam, req.duration_max)>> ELSE <<>>)
  \o (IF Truthy(req.publish_date_from) \/ Truthy(req.publish_date_to)
      THEN <<Range("publish_date", req.publish_date_from, req.publish_date_to)>> ELSE <<>>)
  \o (IF Truthy(req.tags) THEN <<Terms("metadata.tags", tag_list(req.tags))>> ELSE <<>>)

\* filter_queries as SearchView.get appends to it
filter_queries(req) ==
  (IF Truthy(req.category) THEN <<Term("category", req.category.str)>> ELSE <<>>)
  \o (IF Truthy(req.language) THEN <<Term("language", req.language.str)>> ELSE <<>>)
  \o (IF Truthy(req.media_type) THEN <<Term("media_type", req.media_type.str)>> ELSE <<>>)
  \o (IF Truthy(req.duration_min) \/ Truthy(req.duration_max)
      THEN <<Range("duration", req.duration_min, req.duration_max)>> ELSE <<>>)
  \o (IF Truthy(req.publish_date_from) \/ Truthy(req.publish_date_to)
      THEN <<Range("publish_date", req.publish_date_from, req.publish_date_to)>> ELSE <<>>)
  \o (IF Truthy(req.tags) THEN <<Terms("metadata.tags", tag_list(req.tags))>> ELSE <<>>)

\* from_size = (page - 1) * page_size
from_size(page, page_size) == (page - 1) * page_size

\* mutant: the division rounds down
total_pages_Floor(total, page_size) == total \div page_size

\* total_pages = (total + page_size - 1) // page_size
total_pages(total, page_size) == (total + page_size - 1) \div page_size

\* the part of search_body that depends on the request
SearchBody(req, page, page_size) ==
  [called |-> TRUE,
   query |-> req.q.str,
   filter |-> filter_queries(req),
   from |-> from_size(page, page_size),
   size |-> page_size]

\* what client.search does with a body: the engine rejects a negative from
\* or size; otherwise it raises (unreachable, malformed query) or answers
\* with a total and hits, which carry _source or, malformed, do not
Raises == [raises |-> TRUE]

Answer(total, source) == [raises |-> FALSE, total |-> total, source |-> source]

Totals == {0, 1, 25, 101}

EngineOutcomes(body) ==
  IF body.from < 0 \/ body.size < 0 THEN {Raises}
  ELSE {Raises, Answer(1, FALSE)} \cup {Answer(t, TRUE) : t \in Totals}

BadRequest == [status |-> 400, error |-> "Query parameter 'q' is required"]

ServerError(details) == [status |-> 500, error |-> "Search failed", details |-> details]

\* the response built from the engine's answer
Respond(req, page, page_size, out) ==
  IF out.raises THEN ServerError("search")
  ELSE IF page_size = 0 THEN ServerError("ZeroDivisionError")
  ELSE IF ~out.source THEN ServerError("KeyError")
  ELSE [status |-> 200,
        query |-> req.q.str,
        total |-> out.total,
        page |-> page,
        page_size |-> page_size,
        total_pages |-> total_pages(out.total, page_size)]

\* the requests: with and without q, pages and page sizes around their
\* limits and not numeric, and every filter given, empty or absent
PageInputs == {NoParam, Text("abc"), Num(0 - 1)} \cup {Num(n) : n \in 0..MaxPage}

PageSizeInputs ==
  {NoParam, Text("abc"), Num(0 - 5), Num(0), Num(1), Num(10),
   Num(max_page_size), Num(max_page_size + 1)}

TagInputs == {NoParam, Chars(<<>>), Chars(<<"a">>), Chars(<<"a", ",", " ", "b">>)}

Requests ==
  [q : {NoParam, Text(""), Text("coffee")},
   page : PageInputs,
   page_size : PageSizeInputs,
   category : {NoParam, Text(""), Text("Technology")},
   language : {NoParam, Text("English")},
   media_type : {NoParam, Text("video")},
   duration_min : {NoParam, Text("10")},
   duration_max : {NoParam, Text("60")},
   publish_date_from : {NoParam, Text("2023-01-01")},
   publish_date_to : {NoParam, Text("2023-12-31")},
   tags : TagInputs]

\* mutant: the handler does not test q
SearchView_get_NoCheck ==
  /\ request # NoRequest
  /\ response = NoResponse
  /\ LET req == request
     IN
       /\ UNCHANGED request
       /\ LET page == ParseInt(req.page, default_page)
              size == ParseInt(req.page_size, default_page_size)
              query == IF Truthy(req.q) THEN req ELSE [req EXCEPT !.q = Text("")]
          IN  IF ~page.ok \/ ~size.ok
              THEN /\ search_body' = NoCall
                   /\ response' = ServerError("ValueError")
              ELSE LET page_size == Min(size.value, max_page_size)
                       body == SearchBody(query, page.value, page_size)
                   IN  /\ search_body' = body
                       /\ \E out \in EngineOutcomes(body) :
                            response' = Respond(query, page.value, page_size, out)
  /\ UNCHANGED <<dbVars, topicVars, indexVars, consumerVars, histVars, userVars>>

\* mutant: page and page_size are parsed before the try, so a text that is
\* no number ends in the framework's own response to an unhandled exception
SearchView_get_ParseOutsideTry ==
  /\ request # NoRequest
  /\ response = NoResponse
  /\ LET req == request
     IN
       /\ UNCHANGED request
       /\ IF ~Truthy(req.q)
          THEN /\ search_body' = NoCall
               /\ response' = BadRequest
          ELSE \/ /\ search_body' = NoCall
                  /\ response' = ServerError("client")
               \/ LET page == ParseInt(req.page, default_page)
                      size == ParseInt(req.page_size, default_page_size)
                  IN  IF ~page.ok \/ ~size.ok
                      THEN /\ search_body' = NoCall
                           /\ response' = [status |-> 500]
                      ELSE LET page_size == Min(size.value, max_page_size)
                               body == SearchBody(req, page.value, page_size)
                           IN  /\ search_body' = body
                               /\ \E out \in EngineOutcomes(body) :
                                    response' = Respond(req, page.value, page_size, out)
  /\ UNCHANGED <<dbVars, topicVars, indexVars, consumerVars, histVars, userVars>>

\* SearchView.get answers the request that has arrived.  Without q it
\* answers 400; otherwise
\* everything else runs inside one try whose except answers 500: creating the
\* client, parsing page and page_size, the search call, and building the
\* response from the engine's answer.
SearchView_get ==
  /\ request # NoRequest
  /\ response = NoResponse
  /\ LET req == request
     IN
       /\ UNCHANGED request
       /\ IF ~Truthy(req.q)
          THEN /\ search_body' = NoCall
               /\ response' = BadRequest
          ELSE \/ /\ search_body' = NoCall
                  /\ response' = ServerError("client")
               \/ LET page == ParseInt(req.page, default_page)
                      size == ParseInt(req.page_size, default_page_size)
                  IN  IF ~page.ok \/ ~size.ok
                      THEN /\ search_body' = NoCall
                           /\ response' = ServerError("ValueError")
                      ELSE LET page_size == Min(size.value, max_page_size)
                               body == SearchBody(req, page.value, page_size)
                           IN  /\ search_body' = body
                               /\ \E out \in EngineOutcomes(body) :
                                    response' = Respond(req, page.value, page_size, out)
  /\ UNCHANGED <<dbVars, topicVars, indexVars, consumerVars, histVars, userVars>>

\* The search endpoint on its own: a request has arrived and is answered.
InitSearch ==
  /\ programs = [i \in ProgramIds |-> NoRow]
  /\ nextId = 1
  /\ pending = {}
  /\ mutations = 0
  /\ completed = {}
  /\ topic = <<>>
  /\ origin = <<>>
  /\ mapping = "inline"
  /\ docs = NoDocs
  /\ pc = "loop"
  /\ attempt = 0
  /\ exitCode = 0 - 1
  /\ position = 0
  /\ committed = 0
  /\ current = NoMessage
  /\ log = "Kafka consumer created successfully"
  /\ applied = [i \in DocIds |-> "none"]
  /\ handled = {}
  /\ request \in Requests
  /\ search_body = NoCall
  /\ response = NoResponse
  /\ NoUserActivity

NextSearch == SearchView_get

SpecSearch == InitSearch /\ [][NextSearch]_vars

\* ============================================ the whole system, running
\* one search request: q and page=-1, a query that SearchView.get sends to
\* the engine and the engine rejects
FrameRequests ==
  {r \in Requests : /\ r.q = Text("coffee")
                    /\ r.page = Num(0 - 1)
                    /\ \A f \in DOMAIN r \ {"q", "page"} : r[f] = NoParam}

\* The consumer has started (its index exists, it is subscribed and in its
\* read loop), no program has been written yet, and a search request has
\* arrived.
InitFrame ==
  /\ programs = [i \in ProgramIds |-> NoRow]
  /\ nextId = 1
  /\ pending = {}
  /\ mutations = 0
  /\ completed = {}
  /\ topic = <<>>
  /\ origin = <<>>
  /\ mapping = "inline"
  /\ docs = NoDocs
  /\ pc = "loop"
  /\ attempt = 0
  /\ exitCode = 0 - 1
  /\ position = 0
  /\ committed = 0
  /\ current = NoMessage
  /\ log = "Subscribed"
  /\ applied = [i \in DocIds |-> "none"]
  /\ handled = {}
  /\ request \in FrameRequests
  /\ search_body = NoCall
  /\ response = NoResponse
  /\ NoUserActivity

\* the request handlers, the import task, the consumer's read loop and the
\* operator's command, side by side
NextFrame ==
  \/ CreateProgram
  \/ UpdateProgram
  \/ DeleteProgram
  \/ send_program_to_kafka
  \/ send_program_deletion_to_kafka
  \/ import_update_or_create
  \/ import_send
  \/ Fetch
  \/ Dispatch
  \/ Command_handle
  \/ SearchView_get

SpecFrame == InitFrame /\ [][NextFrame]_vars

\* ================================================== users and tokens
\* User.ROLE_CHOICES
ROLE_CHOICES == {"admin", "editor", "viewer"}
\* the default of User.role
default_role == "viewer"

\* the role field of a registration request: absent, a choice, or a text
\* that is no choice
RoleInputs == {NoRole, "admin", "editor", "viewer", "owner"}
Passwords == {"testpass123", "wrongpassword"}

\* UserManager.create_user: the row saved for the given fields; a role that
\* is not passed takes the field's default
create_user(password, role, via) ==
  [password |-> password,
   role |-> IF role = NoRole THEN default_role ELSE role,
   via |-> via]

\* mutant: the role that was asked for is stored
RegisterSerializer_create_KeepsRole(password, role) ==
  create_user(password, role, "register")

\* RegisterSerializer.create: role admin is replaced by viewer, then
\* create_user
RegisterSerializer_create(password, role) ==
  create_user(password, IF role = "admin" THEN "viewer" ELSE role, "register")

\* RegisterView (CreateAPIView with RegisterSerializer): 400 when the email
\* is taken or the role is no choice, else the user is created, 201 with
\* the serialized user
RegisterView_post ==
  /\ \E e \in Emails, role \in RoleInputs :
       IF users[e] # NoUser \/ role \notin ROLE_CHOICES \cup {NoRole}
       THEN /\ call' = [op |-> "register", email |-> e, asked |-> role,
                        status |-> 400]
            /\ UNCHANGED users
       ELSE LET user == RegisterSerializer_create("testpass123", role)
            IN  /\ users' = [users EXCEPT ![e] = user]
                /\ call' = [op |-> "register", email |-> e, asked |-> role,
                            status |-> 201, role |-> user.role]
  /\ UNCHANGED <<tokens, nextKey, revoked>>
  /\ UNCHANGED <<dbVars, topicVars, indexVars, consumerVars, histVars, searchVars>>

\* UserManager.create_superuser, as manage.py createsuperuser calls it
create_superuser ==
  /\ \E e \in Emails :
       /\ users[e] = NoUser
       /\ users' = [users EXCEPT ![e] = create_user("testpass123", "admin", "command")]
  /\ UNCHANGED <<tokens, nextKey, revoked, call>>
  /\ UNCHANGED <<dbVars, topicVars, indexVars, consumerVars, histVars, searchVars>>

\* the rows of the token table that belong to a user
TokensOf(e) == {t \in tokens : t.user = e}

\* LoginSerializer.validate: authenticate(username=email, password=password)
authenticate(e, password) ==
  users[e] # NoUser /\ users[e].password = password

\* mutant: every login makes a new token
LoginView_post_NewToken ==
  /\ \E e \in Emails, password \in Passwords :
       IF ~authenticate(e, password)
       THEN /\ call' = [op |-> "login", email |-> e, status |-> 400]
            /\ UNCHANGED <<tokens, nextKey>>
       ELSE /\ nextKey <= MaxKeys
            /\ tokens' = tokens \cup {[user |-> e, key |-> nextKey]}
            /\ nextKey' = nextKey + 1
            /\ call' = [op |-> "login", email |-> e, status |-> 200,
                        token |-> nextKey]
  /\ UNCHANGED <<users, revoked>>
  /\ UNCHANGED <<dbVars, topicVars, indexVars, consumerVars, histVars, searchVars>>

\* LoginView.post: 400 when the credentials are wrong; else
\* Token.objects.get_or_create(user=user) returns the user's token or makes
\* one with a new key, and the response carries its key
LoginView_post ==
  /\ \E e \in Emails, password \in Passwords :
       IF ~authenticate(e, password)
       THEN /\ call' = [op |-> "login", email |-> e, status |-> 400]
            /\ UNCHANGED <<tokens, nextKey>>
       ELSE IF TokensOf(e) # {}
       THEN /\ \E t \in TokensOf(e) :
                 call' = [op |-> "login", email |-> e, status |-> 200,
                          token |-> t.key]
            /\ UNCHANGED <<tokens, nextKey>>
       ELSE /\ nextKey <= MaxKeys
            /\ tokens' = tokens \cup {[user |-> e, key |-> nextKey]}
            /\ nextKey' = nextKey + 1
            /\ call' = [op |-> "login", email |-> e, status |-> 200,
                        token |-> nextKey]
  /\ UNCHANGED <<users, revoked>>
  /\ UNCHANGED <<dbVars, topicVars, indexVars, consumerVars, histVars, searchVars>>

\* Authorization: Token <key>: the user whose token has that key, NoUser when
\* no token has it (the request is then answered 401)
Authenticate(key) ==
  IF \E t \in tokens : t.key = key
  THEN users[(CHOOSE t \in tokens : t.key = key).user]
  ELSE NoUser

\* the email of the user a key authenticates
Bearer(key) == (CHOOSE t \in tokens : t.key = key).user

\* mutant: only the session is ended, the token stays
LogoutView_post_KeepsToken ==
  /\ \E key \in Keys \cup {NoKey} :
       IF Authenticate(key) = NoUser
       THEN call' = [op |-> "logout", token |-> key, status |-> 401]
       ELSE call' = [op |-> "logout", token |-> key, status |-> 200,
                     email |-> Bearer(key)]
  /\ UNCHANGED <<tokens, revoked>>
  /\ UNCHANGED <<users, nextKey>>
  /\ UNCHANGED <<dbVars, topicVars, indexVars, consumerVars, histVars, searchVars>>

\* LogoutView.post (IsAuthenticated): request.user.auth_token.delete(),
\* then 200
LogoutView_post ==
  /\ \E key \in Keys \cup {NoKey} :
       IF Authenticate(key) = NoUser
       THEN /\ call' = [op |-> "logout", token |-> key, status |-> 401]
            /\ UNCHANGED <<tokens, revoked>>
       ELSE /\ tokens' = tokens \ TokensOf(Bearer(key))
            /\ revoked' = revoked \cup {t.key : t \in TokensOf(Bearer(key))}
            /\ call' = [op |-> "logout", token |-> key, status |-> 200,
                        email |-> Bearer(key)]
  /\ UNCHANGED <<users, nextKey>>
  /\ UNCHANGED <<dbVars, topicVars, indexVars, consumerVars, histVars, searchVars>>

\* ProfileView (IsAuthenticated): the serialized request.user
ProfileView_get ==
  /\ \E key \in Keys \cup {NoKey} :
       IF Authenticate(key) = NoUser
       THEN call' = [op |-> "profile", token |-> key, status |-> 401]
       ELSE call' = [op |-> "profile", token |-> key, status |-> 200,
                     email |-> Bearer(key)]
  /\ UNCHANGED <<users, tokens, nextKey, revoked>>
  /\ UNCHANGED <<dbVars, topicVars, indexVars, consumerVars, histVars, searchVars>>

\* the users endpoints on their own, before anything else has happened
InitUsers == Init

NextUsers ==
  \/ RegisterView_post
  \/ create_superuser
  \/ LoginView_post
  \/ LogoutView_post
  \/ ProfileView_get

SpecUsers == InitUsers /\ [][NextUsers]_vars

\* ============================================================== properties
\* the fields run_consumer reads off the message it is processing
EventOp == Get(current, "op", NoOp)

EventId == Get(current, "program_id", None)

EventPayload == Get(current, "payload", EmptyPayload)

\* the operation tags of the topic contract
UpsertOps == {"upsert", "create", "update"}

DeleteOps == {"delete"}

\* the step in which the loop body finishes with the current message
Processed == pc = "dispatch" /\ pc' \notin {"dispatch", "health"}

\* the consumer has finished with the message at its position and has not
\* taken the next one
JustProcessed ==
  /\ pc = "loop"
  /\ position >= 1
  /\ current = topic[position]

\* C1 as stated: once an upsert, create or update event that carries a
\* program_id has been processed, a lookup by that id returns the event's
\* payload.
C1_UpsertVisibleAlways ==
  [][(Processed /\ EventOp \in UpsertOps /\ EventId # None)
       => Lookup(docs', EventId) = EventPayload]_vars

\* C1 amended: once an upsert, create or update event that carries a
\* program_id has been processed and client.index did not raise, a lookup by
\* that id returns the event's payload, in the very state in which the event
\* counts as processed.
C1_UpsertVisible ==
  [][(Processed /\ EventOp \in UpsertOps /\ EventId # None
        /\ log' # "Error indexing program")
       => Lookup(docs', EventId) = EventPayload]_vars

C1_Witness ==
  /\ JustProcessed
  /\ EventOp \in UpsertOps
  /\ EventId # None
  /\ log = "Indexed program"
  /\ Lookup(docs, EventId) = EventPayload

\* C2 as stated: once a delete event has been processed, a lookup by its
\* program_id returns not-found.
C2_DeleteRemovesAlways ==
  [][(Processed /\ EventOp \in DeleteOps)
       => Lookup(docs', EventId) = NotFound]_vars

\* C2 amended: once a delete event has been processed and client.delete did
\* not raise a transport error (it succeeded, or raised because the document
\* was absent), a lookup by its program_id returns not-found.
C2_DeleteRemoves ==
  [][(Processed /\ EventOp \in DeleteOps
        /\ log' # "Delete failed: transport error")
       => Lookup(docs', EventId) = NotFound]_vars

C2_Witness ==
  /\ JustProcessed
  /\ EventOp \in DeleteOps
  /\ log = "Deleted program"
  /\ applied[EventId] = "delete"
  /\ Lookup(docs, EventId) = NotFound

\* the lines handle_delete logs
DeleteLines == {"Deleted program", "Delete failed: not found", "Delete failed: transport error"}

\* an upsert for id i was delivered before the delete for i that the consumer
\* has just finished with (its line is the last one logged)
UpsertThenDelete(i) ==
  /\ JustProcessed
  /\ EventOp \in DeleteOps
  /\ EventId = i
  /\ log \in DeleteLines
  /\ \E k \in 1..(position - 1) :
       /\ Get(topic[k], "op", NoOp) \in UpsertOps
       /\ Get(topic[k], "program_id", None) = i

\* C3 as stated: after an upsert and a later delete for the same id have both
\* been processed, the index holds no document for that id.
C3_UpsertThenDeleteAlways ==
  \A i \in ProgramIds : UpsertThenDelete(i) => Lookup(docs, i) = NotFound

\* C3 amended: after an upsert and a later delete for the same id have both
\* been processed, the index holds no document for that id unless the delete
\* call raised a transport error.
C3_UpsertThenDelete ==
  \A i \in ProgramIds :
    (UpsertThenDelete(i) /\ log # "Delete failed: transport error")
      => Lookup(docs, i) = NotFound

C3_Witness ==
  \E i \in ProgramIds :
    /\ UpsertThenDelete(i)
    /\ log = "Deleted program"
    /\ position = 2
    /\ Get(topic[1], "program_id", None) = i
    /\ Lookup(docs, i) = NotFound

\* C4: processing an upsert event (with a program_id) in the state its first
\* processing left, where the document under its id equals its payload,
\* changes nothing: the index, its mapping and every document stay as they
\* were, with that one document under the event's id.
C4_UpsertIdempotent ==
  [][(Processed /\ EventOp \in UpsertOps /\ EventId # None
        /\ Lookup(docs, EventId) = EventPayload)
       => (docs' = docs /\ mapping' = mapping
           /\ Lookup(docs', EventId) = EventPayload)]_vars

\* the same upsert is on the log twice in a row and the consumer has
\* processed the second copy
C4_Witness ==
  /\ JustProcessed
  /\ position = 2
  /\ topic[1] = topic[2]
  /\ EventOp \in UpsertOps
  /\ EventId # None
  /\ log = "Indexed program"
  /\ DocSet(docs) = {EventId}
  /\ docs[EventId] = EventPayload

\* C5: a message whose op is none of upsert, create, update, delete (or that
\* has no op) leaves the index as it is, and the consumer stays in its read
\* loop at the position after the message, so the next message is the next
\* one it takes.
C5_UnknownOpSkipped ==
  [][(Processed /\ EventOp \notin UpsertOps /\ EventOp \notin DeleteOps)
       => (/\ UNCHANGED indexVars
           /\ pc' = "loop"
           /\ exitCode' = exitCode
           /\ position' = position
           /\ log' \in {"Unknown operation", "Error processing message"})]_vars

\* a message after an unknown-op message has been processed and indexed
C5_Witness ==
  /\ JustProcessed
  /\ position = 2
  /\ Get(topic[1], "op", NoOp) \notin UpsertOps
  /\ Get(topic[1], "op", NoOp) \notin DeleteOps
  /\ log = "Indexed program"
  /\ Lookup(docs, EventId) = EventPayload

\* C6 as stated: in every reachable state of the pipeline the documents are
\* a subset of the live programs whose last applied event was an upsert (so
\* no deleted program has a document).
C6_DocsSubsetOfLive ==
  DocSet(docs) \subseteq {i \in Live : applied[i] = "upsert"}

\* C6 amended: in every reachable state of the pipeline the documents are a
\* subset of the programs that were created and whose last applied event was
\* an upsert, and no program whose delete event was applied has a document.
C6_DocsSubsetOfApplied ==
  /\ DocSet(docs) \subseteq {i \in DocIds : applied[i] = "upsert"}
  /\ DocSet(docs) \subseteq 1..(nextId - 1)
  /\ \A i \in DocIds : applied[i] = "delete" => docs[i] = Absent

\* a program was created and deleted, both events were published, and the
\* consumer has applied the upsert and then the delete
C6_Witness ==
  \E i \in ProgramIds :
    /\ i < nextId
    /\ programs[i] = NoRow
    /\ Len(topic) = 2
    /\ Get(topic[1], "op", NoOp) \in UpsertOps
    /\ Get(topic[2], "op", NoOp) \in DeleteOps
    /\ position = 2
    /\ applied[i] = "delete"
    /\ log = "Deleted program"
    /\ docs[i] = Absent
    /\ pending = {}

\* the messages on the topic that were appended for mutation m
EventsOf(m) == {k \in 1..Len(topic) : origin[k].mut = m}

StartupSchemaStep == pc = "schema" /\ pc' \in {"warmup", "exited"}

C10_SchemaErrorIsFatal ==
  [][/\ (pc = "schema" /\ log' \in {"Error creating index",
                                    "Failed to connect to OpenSearch: index error"})
          => (pc' = "exited" /\ exitCode' = 1 /\ position' = position
              /\ current' = current /\ UNCHANGED indexVars)
     /\ (pc = "exited" /\ pc' # "health")
          => UNCHANGED <<consumerVars, indexVars>>]_vars

\* the process has exited on a schema error while messages wait on the topic
C10_Witness ==
  /\ pc = "exited"
  /\ exitCode = 1
  /\ log = "Failed to connect to OpenSearch: index error"
  /\ position = 0
  /\ current = NoMessage
  /\ Len(topic) > 0

\* one health poll of wait_for_opensearch: it moves the loop variable or
\* leaves the loop
HealthPoll == pc = "health" /\ (attempt' # attempt \/ pc' # pc)

\* C11: the startup health poll terminates.  The poll taken at loop variable
\* attempt is poll number attempt + 1, which is at most max_retries; a poll
\* that stays in the loop is followed by a delay, of which there are at most
\* max_retries - 1; a poll leaves the loop for the schema manager or, when it
\* is the last of the budget and fails, for exit status 1; and a process that
\* is polling does leave the loop.
C11_HealthPollTerminates ==
  /\ [][HealthPoll =>
         /\ attempt + 1 <= max_retries
         /\ pc' = "health" => (attempt' = attempt + 1 /\ attempt' <= max_retries - 1)
         /\ pc' # "health" => (attempt' = attempt /\ pc' \in {"schema", "exited"})
         /\ pc' = "exited" => (attempt = max_retries - 1 /\ exitCode' = 1)]_vars
  /\ (pc = "health") ~> (pc # "health")

\* no poll of the budget succeeded and the process has exited with status 1
C11_Witness ==
  /\ pc = "exited"
  /\ exitCode = 1
  /\ attempt = max_retries - 1
  /\ log = "Failed to connect to OpenSearch: not ready"

\* C12: after startup an unexpected error (the subscription cannot be
\* created, an exception escapes the read loop) does not end the process;
\* the process exits only out of the health poll, when its budget is
\* exhausted, and out of the schema manager.
C12_OnlyStartupErrorsExit ==
  [][(pc # "exited" /\ pc' = "exited") => pc \in {"health", "schema"}]_vars

\* C13: an exception that escapes the message iteration does not end the
\* process.  No step of the read loop, of the loop body or of the backoff
\* exits; the escaping exception is logged and leads to the backoff sleep,
\* which is longer than the idle sleep, with the position, the offsets and
\* the index as they were; and the only way out of the backoff sleep (other
\* than the process being killed) is back into the read loop.
C13_LoopErrorBacksOff ==
  [][/\ pc \in {"loop", "dispatch", "backoff"} => pc' # "exited"
     /\ (pc = "loop" /\ pc' = "backoff")
          => /\ log' = "Consumer error"
             /\ backoff_sleep > idle_sleep
             /\ UNCHANGED <<exitCode, position, committed, current, indexVars>>
     /\ (pc = "backoff" /\ pc' \notin {"backoff", "health"})
          => /\ pc' = "loop"
             /\ UNCHANGED <<exitCode, position, committed, current, log, indexVars>>]_vars

\* after an escaped exception and the backoff the consumer is in its read
\* loop again, with a message still to read
C13_Witness ==
  /\ pc = "loop"
  /\ log = "Consumer error"
  /\ exitCode = 0 - 1
  /\ position = 1
  /\ Len(topic) = 2

\* the loop body ends for the current message (the process is not killed)
BodyStep == pc = "dispatch" /\ log' # log /\ pc' # "health"

\* C14: a failure while processing one message (the index write raises, the
\* delete raises, also for an absent id, or the body raises on an event that
\* is not a dict) is caught: the body ends once, the consumer is back in its
\* read loop at the same position with the process running and the index as
\* it was, and the message the loop takes next is the one after it.
C14_FailureSkipped ==
  [][/\ (BodyStep /\ log' \in FailureLines)
          => /\ pc' = "loop"
             /\ UNCHANGED <<exitCode, position, committed, current, indexVars>>
     /\ (pc = "loop" /\ pc' = "dispatch")
          => /\ position' = position + 1
             /\ current' = topic[position + 1]]_vars

\* the first message was not a JSON object, and the message after it has
\* been processed and indexed
C14_Witness ==
  /\ JustProcessed
  /\ position = 2
  /\ ~IsDict(topic[1])
  /\ EventOp \in UpsertOps
  /\ log = "Indexed program"
  /\ Lookup(docs, EventId) = EventPayload

\* the mutations whose signal handler returns in this step without having
\* published: they are done, or handed on to the importer's send, as lost
HandlerFailures ==
  {h \in pending :
     /\ h.signal \in {"post_save", "post_delete"}
     /\ \/ \E c \in completed' \ completed : c.mut = h.mut /\ c.lost
        \/ \E g \in pending' \ pending : g.mut = h.mut /\ g.lost}

\* C15: when a signal handler fails to publish (no producer, or send or
\* flush raises), the store is as the mutation left it, nothing is appended
\* to the topic, and the caller of save() or delete() gets no exception.
C15_PublishFailureSwallowed ==
  [][HandlerFailures # {} =>
       /\ UNCHANGED <<programs, nextId, mutations>>
       /\ UNCHANGED topicVars
       /\ \A c \in completed' \ completed : ~c.error]_vars

\* a program was created through the API, publishing its event failed, and
\* the row is in the store with no event on the topic
C15_Witness ==
  /\ programs[1] # NoRow
  /\ topic = <<>>
  /\ pending = {}
  /\ \E c \in completed : c.signal = "post_save" /\ c.by = "api" /\ c.lost /\ ~c.error

\* C16: no message is skipped by the offsets.  Every message below the
\* committed offset, and every message a running consumer has passed, has
\* had the loop body run to its end at least once; a consumer that is
\* subscribed starts from the committed offset, so a message that was being
\* processed when the process died is delivered again.
C16_AtLeastOnce ==
  /\ committed <= Len(topic)
  /\ 1..committed \subseteq handled
  /\ pc \in {"loop", "backoff"} => 1..position \subseteq handled
  /\ pc = "dispatch" => (1..(position - 1) \subseteq handled /\ current = topic[position])
  /\ pc \in {"loop", "backoff", "dispatch"} => committed <= position

\* the consumer was restarted before the offset of a processed message was
\* committed, and is processing the message a second time
C16_Witness ==
  /\ pc = "dispatch"
  /\ position = 1
  /\ committed = 0
  /\ 1 \in handled
  /\ current = topic[1]

\* the search request has been answered
Answered == response # NoResponse

\* C17: a search request whose q is missing or empty is answered with status
\* 400 and an error message, and client.search has not been called for it.
C17_MissingQueryIs400 ==
  (Answered /\ request.q \in {NoParam, Text("")})
    => /\ response.status = 400
       /\ response.error = "Query parameter 'q' is required"
       /\ search_body = NoCall

\* a request with an empty q and filters has been answered with 400
C17_Witness ==
  /\ Answered
  /\ request.q = Text("")
  /\ request.category = Text("Technology")
  /\ response.status = 400
  /\ search_body = NoCall

\* the page the request asks for and the page size in effect, for a request
\* whose page and page_size are numbers or absent
PageOf(req) == IF req.page = NoParam THEN default_page ELSE req.page.int

SizeOf(req) ==
  IF req.page_size = NoParam THEN default_page_size
  ELSE IF req.page_size.int > max_page_size THEN max_page_size
  ELSE req.page_size.int

\* the ceiling of total / size: the least number of pages of that size that
\* hold total hits
CeilDiv(total, size) ==
  CHOOSE n \in 0..total : n * size >= total /\ (n = 0 \/ (n - 1) * size < total)

\* C18: for every search with page p and effective page size s, the offset
\* sent to the engine is (p - 1) * s, and the total_pages of the response is
\* the ceiling of total / s.
C18_OffsetAndTotalPages ==
  /\ search_body # NoCall
       => /\ search_body.size = SizeOf(request)
          /\ search_body.from + SizeOf(request) = PageOf(request) * SizeOf(request)
  /\ (Answered /\ response.status = 200)
       => /\ response.page_size = SizeOf(request)
          /\ response.total_pages = CeilDiv(response.total, SizeOf(request))

\* 25 hits in pages of 10: page 2 was asked from offset 10, of 3 pages
C18_Witness ==
  /\ Answered
  /\ response.status = 200
  /\ response.total = 25
  /\ response.page = 2
  /\ response.page_size = 10
  /\ response.total_pages = 3
  /\ search_body.from = 10

\* C19: whatever integers a client gives for page and page_size, a request
\* that reaches the engine carries a size within 1..100 and an offset of at
\* least 0.
C19_EngineSeesValidPage ==
  search_body # NoCall
    => /\ search_body.size \in 1..max_page_size
       /\ search_body.from >= 0

\* the request gives the filter parameter a value
Given(p) == p \notin {NoParam, Text(""), Chars(<<>>)}

\* the clauses of the filter list of that kind on that field
Clauses(kind, field) ==
  {i \in 1..Len(search_body.filter) :
     search_body.filter[i].kind = kind /\ search_body.filter[i].field = field}

\* the filters of the request: the three exact-match fields, the two
\* ranges, and the tags
FiltersGiven(req) ==
  {f \in {"category", "language", "media_type"} : Given(req[f])}
  \cup (IF Given(req.duration_min) \/ Given(req.duration_max) THEN {"duration"} ELSE {})
  \cup (IF Given(req.publish_date_from) \/ Given(req.publish_date_to)
        THEN {"publish_date"} ELSE {})
  \cup (IF Given(req.tags) THEN {"metadata.tags"} ELSE {})

\* C20: the filter list of the built query has exactly one clause for each
\* filter the request gives a value (a term clause with that value for
\* category, language and media_type, one range clause for duration, one for
\* publish_date, one terms clause for tags) and no other clause.
C20_OneClausePerFilter ==
  search_body # NoCall =>
    /\ \A f \in {"category", "language", "media_type"} :
         IF Given(request[f])
         THEN /\ Cardinality(Clauses("term", f)) = 1
              /\ \A i \in Clauses("term", f) : search_body.filter[i].value = request[f].str
         ELSE Clauses("term", f) = {}
    /\ \A f \in {"duration", "publish_date"} :
         Cardinality(Clauses("range", f)) = IF f \in FiltersGiven(request) THEN 1 ELSE 0
    /\ Cardinality(Clauses("terms", "metadata.tags"))
         = IF Given(request.tags) THEN 1 ELSE 0
    /\ Len(search_body.filter) = Cardinality(FiltersGiven(request))

\* category=Technology&language=English: exactly two term clauses
C20_Witness ==
  /\ search_body # NoCall
  /\ request.category = Text("Technology")
  /\ request.language = Text("English")
  /\ FiltersGiven(request) = {"category", "language"}
  /\ search_body.filter = <<Term("category", "Technology"), Term("language", "English")>>

\* C21: a search request ends in exactly one of 200, 400 and 500, and for a
\* request with a non-empty q every failure (creating the client, a page or
\* page_size that is no number, the search call, building the response)
\* gives status 500 with the fields error and details.
C21_FailuresAre500 ==
  Answered =>
    /\ response.status \in {200, 400, 500}
    /\ Truthy(request.q) =>
         /\ response.status \in {200, 500}
         /\ response.status = 500 =>
              /\ DOMAIN response = {"status", "error", "details"}
              /\ response.error = "Search failed"
         /\ (~ParseInt(request.page, default_page).ok
               \/ ~ParseInt(request.page_size, default_page_size).ok)
              => (response.status = 500 /\ search_body = NoCall)
         /\ response.status = 200 => search_body # NoCall

\* a request whose page is not a number has been answered with 500
C21_Witness ==
  /\ Answered
  /\ request.q = Text("coffee")
  /\ request.page = Text("abc")
  /\ response = ServerError("ValueError")

\* a step of a request handler or of the import task: a row is written, a
\* signal handler starts or ends, a message is published, or the search
\* request is answered
HandlerStep ==
  \/ dbVars' # dbVars
  \/ topicVars' # topicVars
  \/ searchVars' # searchVars

\* a step of the consumer's loop body
ConsumerStep == pc = "dispatch" /\ pc' = "loop"

\* a run of the create_opensearch_index command
CommandStep ==
  /\ docs' = NoDocs
  /\ mapping' \in {"file", "none"}
  /\ UNCHANGED <<dbVars, topicVars, consumerVars, searchVars>>

Called(op) == call' # call /\ call'.op = op

\* C23: a successful logout deletes the token the request was authenticated
\* with; every later logout or profile request that presents a deleted
\* token is answered 401; a later login issues a token that authenticates
\* again.
C23_LogoutRevokesToken ==
  [][/\ (Called("logout") /\ call'.status = 200)
         => /\ \A t \in tokens' : t.key # call'.token
            /\ call'.token \in revoked'
     /\ ((Called("logout") \/ Called("profile")) /\ call'.token \in revoked)
         => call'.status = 401
     /\ (Called("login") /\ call'.status = 200)
         => /\ [user |-> call'.email, key |-> call'.token] \in tokens'
            /\ call'.token \notin revoked']_vars

\* register, login, logout, profile: the profile request with the token of
\* the login has been answered 401
C23_Witness ==
  /\ call.op = "profile"
  /\ call.status = 401
  /\ call.token \in revoked
  /\ \E e \in Emails : users[e] # NoUser /\ users[e].via = "register"

\* C24: no user created through the registration endpoint has the role
\* admin; a registration that asks for role admin, or for no role, creates
\* a viewer, and answers with that role.
C24_RegistrationNeverAdmin ==
  /\ \A e \in Emails :
       (users[e] # NoUser /\ users[e].via = "register")
         => users[e].role \in ROLE_CHOICES \ {"admin"}
  /\ (call.op = "register" /\ call.status = 201
        /\ call.asked \in {"admin", NoRole})
       => /\ users[call.email].role = "viewer"
          /\ call.role = "viewer"

\* a registration that asked for role admin has created a viewer
C24_Witness ==
  /\ call.op = "register"
  /\ call.status = 201
  /\ call.asked = "admin"
  /\ users[call.email].role = "viewer"

\* C30: each user has at most one token; a login while the user has a token
\* returns that token and makes none; a logout leaves its user without any
\* token and deletes no other user's token; a logout that is not
\* authenticated deletes nothing.
C30_OneTokenPerUser ==
  [][/\ \A e \in Emails : Cardinality({t \in tokens' : t.user = e}) <= 1
     /\ (Called("login") /\ call'.status = 200 /\ TokensOf(call'.email) # {})
         => /\ tokens' = tokens
            /\ [user |-> call'.email, key |-> call'.token] \in tokens
     /\ (Called("logout") /\ call'.status = 200)
         => /\ \A t \in tokens' : t.user # call'.email
            /\ \A t \in tokens : t.user # call'.email => t \in tokens'
     /\ (Called("logout") /\ call'.status # 200) => tokens' = tokens]_vars

\* both users hold a token, and the last call is a login of the first
\* user that returned the token issued before the second user's
C30_Witness ==
  /\ call.op = "login"
  /\ call.status = 200
  /\ call.token = 1
  /\ nextKey = 3
  /\ \E t \in tokens : t.key = 2 /\ t.user # call.email

\* C25: the consumer leaves the health poll for the rest of its startup
\* only in a poll that reported green or yellow, and such a poll uses up no
\* attempt; every other poll (red, or an exception) leaves it not ready and
\* uses up one attempt of the budget: the loop variable advances, or the
\* budget is exhausted and the process exits.
C25_ReadyOnlyOnGreenOrYellow ==
  [][/\ (pc = "health" /\ pc' = "schema")
         => /\ log' \in {ReadyLine("green"), ReadyLine("yellow")}
            /\ attempt' = attempt
     /\ (HealthPoll /\ pc' # "schema")
         => /\ log' \notin {ReadyLine(s) : s \in {"green", "yellow", "red"}}
            /\ \/ pc' = "health" /\ attempt' = attempt + 1
               \/ pc' = "exited" /\ attempt = max_retries - 1]_vars

\* one poll was not ready and the next reported yellow
C25_Witness ==
  /\ pc = "schema"
  /\ attempt = 1
  /\ log = ReadyLine("yellow")

\* the consumer process goes from one place of run_consumer to another
\* (a restart of the process apart)
Moves == pc' # pc /\ pc' # "health"

\* C26: the consumer goes through its startup in the order health poll,
\* schema manager, warm-up and subscription, read loop, each of the first
\* three either going on to the next or ending the process; it takes a
\* message from the topic only in the read loop and changes the documents
\* only in the loop body, and it is in neither unless the index exists.
C26_StartupOrder ==
  [][/\ Moves =>
          /\ pc = "health" => pc' \in {"schema", "exited"}
          /\ pc = "schema" => pc' \in {"warmup", "exited"}
          /\ pc = "warmup" => pc' \in {"loop", "exited"}
          /\ pc' = "loop" => pc \in {"warmup", "dispatch", "backoff"}
          /\ pc' = "dispatch" => pc = "loop"
     /\ current' \notin {current, NoMessage} => pc = "loop"
     /\ (docs' # docs \/ handled' # handled) => pc = "dispatch"
     /\ pc' \in {"warmup", "loop", "dispatch", "backoff"} => indexExists']_vars

\* the consumer has created the index, subscribed, read a message and
\* indexed its document
C26_Witness ==
  /\ pc = "loop"
  /\ mapping = "inline"
  /\ handled # {}
  /\ docs[1] # Absent

\* the program a message is about
ProgramOf(k) == Get(topic[k], "program_id", None)

\* C27: events of the same program are applied to the index in the order
\* in which their mutations were committed: of two messages of the signal
\* handlers about one program that the consumer has processed, the earlier
\* on the topic belongs to the earlier mutation.
C27_AppliedInCommitOrder ==
  \A j \in handled, k \in handled :
    (/\ j < k
     /\ origin[j].src = "signal"
     /\ origin[k].src = "signal"
     /\ ProgramOf(j) = ProgramOf(k))
      => origin[j].mut < origin[k].mut

\* the positions of the messages of a log that are upserts of program i,
\* and those that are deletes of it
UpsertsOf(lg, i) ==
  {k \in 1..Len(lg) : /\ IsDict(lg[k])
                       /\ Get(lg[k], "op", NoOp) \in UpsertOps
                       /\ Get(lg[k], "program_id", None) = i}

DeletesOf(lg, i) ==
  {k \in 1..Len(lg) : /\ IsDict(lg[k])
                       /\ Get(lg[k], "op", NoOp) \in DeleteOps
                       /\ Get(lg[k], "program_id", None) = i}

\* what a log says about program i: the payload of its last upsert when no
\* delete follows it, and nothing otherwise
LastWins(lg, i) ==
  LET ups == UpsertsOf(lg, i)
      last == CHOOSE k \in ups : \A j \in ups : j <= k
  IN  IF ups = {} \/ \E k \in DeletesOf(lg, i) : k > last
      THEN NotFound
      ELSE Get(lg[last], "payload", EmptyPayload)

\* the consumer has read the topic to its end and is idle
AtEnd == pc = "loop" /\ position = Len(topic)

\* the index agrees with the log on every program id
IndexIsLastWins ==
  \A i \in EventIds \ {None} : Lookup(docs, i) = LastWins(topic, i)

\* C28 as stated: a consumer that started on an empty index and without a
\* committed offset, and has read the topic to its end, has built the
\* index in which every program id holds the payload of its last upsert
\* when no delete follows, and nothing otherwise.
C28_ReplayEqualsLog == AtEnd => IndexIsLastWins

\* C28 amended: the same, in the runs in which no index call raises an
\* error other than "not found" (then the line of that error is never the
\* last line logged).
C28_ReplayEqualsLogUnlessRaised ==
  [](log \notin ErrorLines) => [](AtEnd => IndexIsLastWins)

\* the consumer has read a log of an upsert and a later update of the same
\* program to its end, committed the offset, and the index holds the
\* update's payload
C28_Witness ==
  /\ AtEnd
  /\ committed = Len(topic)
  /\ \E i \in EventIds \ {None} :
       /\ Cardinality(UpsertsOf(topic, i)) = 2
       /\ Lookup(docs, i) = LastWins(topic, i)
       /\ Lookup(docs, i) # NotFound

\* C29: every document of the index is stored under the program_id of an
\* upsert event the consumer has processed; in particular no document is
\* stored under an id the engine generated.
C29_DocsUnderEventIds ==
  \A i \in DocSet(docs) :
    /\ i \notin AutoIds
    /\ \E k \in UpsertsOf(topic, i) : k \in handled

====
